---- MODULE Spec2Model ----
(***************************************************************************)
(* Model of SupportImpl.Execute (core/endorser/support.go): the decoration *)
(* loop, the launch loop that selects a ChaincodeSupport per input and     *)
(* starts one goroutine per input, the goroutines' three channel sends and *)
(* the aggregation loop that receives from the three channels.             *)
(*                                                                         *)
(* Slices are modelled as functions on 0..len-1, as in Go.  Channels are   *)
(* FIFO sequences of messages; a message carries the value sent and, as a  *)
(* history tag, the index of the goroutine that sent it.                   *)
(***************************************************************************)
EXTENDS Integers, Sequences, FiniteSets, Bags, TLC

\* ---- bounds of the model -------------------------------------------------
MaxN == 3            \* largest batch (len(inputs)) explored
MaxExtraRoster == 1  \* the roster is at most this much longer than the batch
MaxVersionN == 2     \* largest batch explored with every chaincode name and version
MaxDelegations == 2  \* number of ledger-backed delegations explored in a row

\* ---- program constants ---------------------------------------------------
ChanCap == 2                          \* make(chan ..., 2)
ConfigBlockMarker == "GetConfigBlock" \* literal compared with Args[0]

\* first arguments an input may carry
Arg0s == {ConfigBlockMarker, "invoke"}

\* chaincode names: the two system chaincodes the code names, and a user chaincode
ChaincodeNames == {"cscc", "lscc", "mycc"}
\* chaincode versions, as character codes: "1" and "1.0"
Versions == {<<49>>, <<49, 46, 48>>}

VARIABLES
    inputs,      \* inputs[i] = [Args0, Decorations], i in 0..N-1
    rosterLen,   \* len(s.ChaincodeSupport)
    backendFails,\* backendFails[k]: the backend call made for input k returns an error
    backendHangs,\* backendHangs[k]: the backend call made for input k never returns
    name,        \* the chaincode name passed to Execute
    version,     \* the chaincode version passed to Execute (a string, as its characters)
    txParams,    \* [ProposalDecorations]
    pc,          \* position of Execute's own goroutine
    i,           \* loop index of the decoration loop / launch loop
    task,        \* task[k]: the goroutine launched for index k
    cRes, cCCEvt, cErr,    \* the three result channels
    resps, ccEvents, err,  \* Execute's result variables
    res, evt,              \* locals of the select case
    calls,       \* bag of backend calls made so far (history)
    collected,   \* per iteration, which goroutine each received value came from (history)
    finished,    \* the goroutines that have completed, in order of completion (history)
    decorateLog, \* the calls of decoration.Apply made so far, in order (history)
    ledgers,     \* the channels for which s.Peer.GetLedger returns a ledger
    lastCall,    \* the last ledger-backed delegation: method, channel, calls made, results
    nDelegations \* number of delegations made so far

\* the variables of the ledger-backed delegations
ledgerVars == <<ledgers, lastCall, nDelegations>>

\* the variables of Execute
executeVars == <<inputs, rosterLen, backendFails, backendHangs, name, version, txParams, pc, i, task, cRes, cCCEvt, cErr,
          resps, ccEvents, err, res, evt, calls, collected, finished, decorateLog>>

vars == <<executeVars, ledgerVars>>

\* ---- values --------------------------------------------------------------
Nil == [kind |-> "nil", id |-> -1]
ResponseOf(k) == [kind |-> "response", id |-> k]
EventOf(k) == [kind |-> "event", id |-> k]
ErrorOf(k) == [kind |-> "error", id |-> k]

\* ---- Go slices: functions on 0..len-1 ------------------------------------
EmptySlice == [k \in {} |-> Nil]
Len0(s) == Cardinality(DOMAIN s)
Append0(s, x) == [k \in 0..Len0(s) |-> IF k < Len0(s) THEN s[k] ELSE x]

N == Len0(inputs)

\* ---- decoration (collaborators) ------------------------------------------
\* decorations an input may still carry from its caller
StaleDecorations == {[key |-> "stale", prop |-> -1]}
\* decorations the registered decorators add for the proposal props[k]
DecorationsFor(k) == {[key |-> "decorator", prop |-> k]}
\* decoration.Apply(proposal, input, decorators...)
Apply(k, input) ==
    [input EXCEPT !.Decorations = input.Decorations \cup DecorationsFor(k)]

\* ---- target selection ----------------------------------------------------
\* a selector that sends every input to the last ChaincodeSupport
SelectSupportAlwaysLast(k) == rosterLen - 1

\* the ChaincodeSupport position chosen for input k (k is a valid position)
SelectSupport(k) ==
    IF inputs[k].Args0 = ConfigBlockMarker THEN rosterLen - 1 ELSE k

\* ---- chaincode context ---------------------------------------------------
\* CCContainerName of the ChaincodeSupport at roster position b: "c0", "c1", ...
CCContainerName(b) == <<99, 48 + b>>

\* the version that appends the tag for the system chaincodes only
Version2Inverted(nm, ver, b) ==
    IF nm = "cscc" \/ nm = "lscc"
      THEN ver \o <<45>> \o CCContainerName(b)
      ELSE ver

\* version2 of the goroutine running on the ChaincodeSupport at position b
\* (45 is "-")
Version2(nm, ver, b) ==
    IF (nm # "cscc") /\ (nm # "lscc")
      THEN ver \o <<45>> \o CCContainerName(b)
      ELSE ver

\* cccid := &ccprovider.CCContext{Name: name, Version: version2}
CCContext(nm, ver, b) == [Name |-> nm, Version |-> Version2(nm, ver, b)]

IdleTask == [pc |-> "idle", s |-> -1, response |-> Nil, event |-> Nil, err |-> Nil]

\* ---- ledger-backed delegations (lines 41-108) ----------------------------
\* channel names a caller may pass
Channels == {"ch1", "ch2", "ch3"}

NoErr == [msg |-> "nil", cause |-> "nil"]
NoVal == [kind |-> "nil", channel |-> "nil"]
NoCall == [method |-> "none", channel |-> "nil", log |-> <<>>, val |-> NoVal, err |-> NoErr]

\* lgr := s.Peer.GetLedger(channel): nil when the peer has no such ledger
GetLedger(ch) == IF ch \in ledgers THEN [kind |-> "ledger", channel |-> ch] ELSE NoVal
PeerLookup(ch) == [target |-> "peer", op |-> "GetLedger", arg |-> ch]
\* a call of operation op on the ledger of channel ch
LedgerOp(op, ch) == [target |-> "ledger", op |-> op, arg |-> ch]
\* what a ledger operation returns: a value of kind k, or the ledger's error
OpResult(k, ch, fails) ==
    IF fails THEN [val |-> NoVal, err |-> [msg |-> "ledger error", cause |-> "nil"]]
             ELSE [val |-> [kind |-> k, channel |-> ch], err |-> NoErr]
Delegation(m, ch, log, val, e) ==
    [method |-> m, channel |-> ch, log |-> log, val |-> val, err |-> e]

\* NewQueryCreator (lines 41-47): returns the ledger itself
NewQueryCreator(ch, fails) ==
    LET lgr == GetLedger(ch)
    IN IF lgr = NoVal
         THEN Delegation("NewQueryCreator", ch, <<PeerLookup(ch)>>, NoVal,
                         [msg |-> "channel doesn't exist", cause |-> "nil"])
         ELSE Delegation("NewQueryCreator", ch, <<PeerLookup(ch)>>, lgr, NoErr)

\* GetTxSimulator (lines 62-68)
GetTxSimulator(ch, fails) ==
    LET lgr == GetLedger(ch)
        r == OpResult("simulator", ch, fails)
    IN IF lgr = NoVal
         THEN Delegation("GetTxSimulator", ch, <<PeerLookup(ch)>>, NoVal,
                         [msg |-> "Channel does not exist", cause |-> "nil"])
         ELSE Delegation("GetTxSimulator", ch,
                         <<PeerLookup(ch), LedgerOp("NewTxSimulator", ch)>>, r.val, r.err)

\* GetHistoryQueryExecutor (lines 72-78)
GetHistoryQueryExecutor(ch, fails) ==
    LET lgr == GetLedger(ch)
        r == OpResult("historyQueryExecutor", ch, fails)
    IN IF lgr = NoVal
         THEN Delegation("GetHistoryQueryExecutor", ch, <<PeerLookup(ch)>>, NoVal,
                         [msg |-> "Channel does not exist", cause |-> "nil"])
         ELSE Delegation("GetHistoryQueryExecutor", ch,
                         <<PeerLookup(ch), LedgerOp("NewHistoryQueryExecutor", ch)>>,
                         r.val, r.err)

\* GetTransactionByID (lines 81-93)
GetTransactionByID(ch, fails) ==
    LET lgr == GetLedger(ch)
        r == OpResult("transaction", ch, fails)
        log == <<PeerLookup(ch), LedgerOp("GetTransactionByID", ch)>>
    IN IF lgr = NoVal
         THEN Delegation("GetTransactionByID", ch, <<PeerLookup(ch)>>, NoVal,
                         [msg |-> "failed to look up the ledger for Channel", cause |-> "nil"])
         ELSE IF r.err # NoErr
                THEN Delegation("GetTransactionByID", ch, log, NoVal,
                                [msg |-> "GetTransactionByID failed", cause |-> r.err.msg])
                ELSE Delegation("GetTransactionByID", ch, log, r.val, NoErr)

\* a GetLedgerHeight that asks the ledger without testing the lookup
GetLedgerHeightNoCheck(ch, fails) ==
    LET r == OpResult("height", ch, fails)
        log == <<PeerLookup(ch), LedgerOp("GetBlockchainInfo", ch)>>
    IN IF r.err # NoErr
         THEN Delegation("GetLedgerHeight", ch, log, [kind |-> "zero", channel |-> ch],
                         [msg |-> "failed to obtain information for Channel",
                          cause |-> r.err.msg])
         ELSE Delegation("GetLedgerHeight", ch, log, r.val, NoErr)

\* GetLedgerHeight (lines 96-108)
GetLedgerHeight(ch, fails) ==
    LET lgr == GetLedger(ch)
        r == OpResult("height", ch, fails)
        log == <<PeerLookup(ch), LedgerOp("GetBlockchainInfo", ch)>>
    IN IF lgr = NoVal
         THEN Delegation("GetLedgerHeight", ch, <<PeerLookup(ch)>>,
                         [kind |-> "zero", channel |-> ch],
                         [msg |-> "failed to look up the ledger for Channel", cause |-> "nil"])
         ELSE IF r.err # NoErr
                THEN Delegation("GetLedgerHeight", ch, log, [kind |-> "zero", channel |-> ch],
                                [msg |-> "failed to obtain information for Channel",
                                 cause |-> r.err.msg])
                ELSE Delegation("GetLedgerHeight", ch, log, r.val, NoErr)

\* ---- initial state -------------------------------------------------------
\* the state at the start of Execute for a batch of n inputs whose first
\* arguments are drawn from arg0s, a roster of one of the lengths lens,
\* backends of which those in one of the sets failsets return an error, and
\* a chaincode name and version drawn from names and versions; the backend
\* calls of the tasks in one of the sets hangsets never return
InitCall(n, arg0s, lens, failsets, names, versions, hangsets) ==
    /\ inputs \in [0..(n-1) -> [Args0 : arg0s, Decorations : {StaleDecorations}]]
    /\ rosterLen \in lens
    /\ \E F \in failsets : backendFails = [k \in 0..(n-1) |-> k \in F]
    /\ \E H \in hangsets : backendHangs = [k \in 0..(n-1) |-> k \in H]
    /\ name \in names
    /\ version \in versions
    /\ task = [k \in 0..(n-1) |-> IdleTask]
    /\ txParams = [ProposalDecorations |-> {}]
    /\ pc = "decorate"
    /\ i = 0
    /\ cRes = <<>> /\ cCCEvt = <<>> /\ cErr = <<>>
    /\ resps = EmptySlice /\ ccEvents = EmptySlice /\ err = Nil
    /\ res = Nil /\ evt = Nil
    /\ calls = EmptyBag
    /\ collected = <<>>
    /\ finished = <<>>
    /\ decorateLog = <<>>

\* Execute is called; no delegation is in progress
InitBatch(n, arg0s, lens, failsets, names, versions, hangsets) ==
    /\ InitCall(n, arg0s, lens, failsets, names, versions, hangsets)
    /\ ledgers = Channels
    /\ lastCall = NoCall
    /\ nDelegations = 0

\* the same for the user chaincode "mycc" at version "1"
InitWith(n, arg0s, lens, failsets) ==
    InitBatch(n, arg0s, lens, failsets, {"mycc"}, {<<49>>}, {{}})

RosterLens(n) == {l \in (n-1)..(n+MaxExtraRoster) : l >= 1}

\* batches of ordinary invocations whose backends may fail in any combination
InitFailures ==
    \E n \in 1..MaxN :
        InitWith(n, {"invoke"}, {l \in (n-1)..n : l >= 1}, SUBSET (0..(n-1)))

\* batches mixing config-block requests and ordinary invocations, over
\* rosters shorter than, as long as and longer than the batch
InitRouting ==
    \E n \in 1..MaxN : InitWith(n, Arg0s, RosterLens(n), {{}})

\* small batches of any chaincode name and version
InitVersions ==
    \E n \in 1..MaxVersionN :
        InitBatch(n, Arg0s, {n, n + 1}, {{}}, ChaincodeNames, Versions, {{}})

\* batches of ordinary invocations in which one backend call never returns
\* and the others may fail in any combination
InitHangs ==
    \E n \in 1..MaxN :
        InitBatch(n, {"invoke"}, {n}, SUBSET (0..(n-1)), {"mycc"}, {<<49>>},
                  {{h} : h \in 0..(n-1)})

\* the empty batch, with an empty or a one-backend roster
InitEmpty == InitWith(0, {"invoke"}, {0, 1}, {{}})

Init == InitFailures \/ InitRouting \/ InitVersions \/ InitHangs \/ InitEmpty

\* ---- decoration loop (lines 147-153) -------------------------------------
\* a decoration loop that keeps the decorations the input arrives with
DecorateKeepStale ==
    /\ pc = "decorate" /\ i < N
    /\ LET input == Apply(i, inputs[i])
       IN /\ inputs' = [inputs EXCEPT ![i] = input]
          /\ txParams' = [txParams EXCEPT !.ProposalDecorations = input.Decorations]
    /\ decorateLog' = Append(decorateLog, [index |-> i, start |-> inputs[i].Decorations])
    /\ i' = i + 1
    /\ UNCHANGED <<ledgerVars, rosterLen, backendFails, backendHangs, name, version, pc, task,
                   cRes, cCCEvt, cErr, resps, ccEvents, err, res, evt, calls, collected,
                   finished>>

\* a decoration loop that writes txParams for the first input only
DecorateFirstOnly ==
    /\ pc = "decorate" /\ i < N
    /\ LET empty == [inputs[i] EXCEPT !.Decorations = {}]
           input == Apply(i, empty)
       IN /\ inputs' = [inputs EXCEPT ![i] = input]
          /\ txParams' = IF i = 0
                            THEN [txParams EXCEPT !.ProposalDecorations = input.Decorations]
                            ELSE txParams
          /\ decorateLog' = Append(decorateLog, [index |-> i, start |-> empty.Decorations])
    /\ i' = i + 1
    /\ UNCHANGED <<ledgerVars, rosterLen, backendFails, backendHangs, name, version, pc, task,
                   cRes, cCCEvt, cErr, resps, ccEvents, err, res, evt, calls, collected,
                   finished>>

Decorate ==
    /\ pc = "decorate" /\ i < N
    /\ LET empty == [inputs[i] EXCEPT !.Decorations = {}]
           input == Apply(i, empty)
       IN /\ inputs' = [inputs EXCEPT ![i] = input]
          /\ txParams' = [txParams EXCEPT !.ProposalDecorations = input.Decorations]
          /\ decorateLog' = Append(decorateLog, [index |-> i, start |-> empty.Decorations])
    /\ i' = i + 1
    /\ UNCHANGED <<ledgerVars, rosterLen, backendFails, backendHangs, name, version, pc, task,
                   cRes, cCCEvt, cErr, resps, ccEvents, err, res, evt, calls, collected,
                   finished>>

\* end of the decoration loop; the three channels are created (lines 155-157)
MakeChannels ==
    /\ pc = "decorate" /\ i = N
    /\ pc' = "launch" /\ i' = 0
    /\ cRes' = <<>> /\ cCCEvt' = <<>> /\ cErr' = <<>>
    /\ UNCHANGED <<ledgerVars, decorateLog, inputs, rosterLen, backendFails, backendHangs, name, version, txParams, task, resps, ccEvents,
                   err, res, evt, calls, collected, finished>>

\* ---- launch loop (lines 160-183) -----------------------------------------
\* s.ChaincodeSupport[i] is evaluated first: an index outside the roster
\* panics (index out of range) before the marker is looked at.
LaunchPanic ==
    /\ pc = "launch" /\ i < N /\ i >= rosterLen
    /\ pc' = "panic"
    /\ UNCHANGED <<ledgerVars, decorateLog, inputs, rosterLen, backendFails, backendHangs, name, version, txParams, i, task, cRes, cCCEvt, cErr,
                   resps, ccEvents, err, res, evt, calls, collected, finished>>

Launch ==
    /\ pc = "launch" /\ i < N /\ i < rosterLen
    /\ task' = [task EXCEPT ![i] = [@ EXCEPT !.pc = "call", !.s = SelectSupport(i)]]
    /\ i' = i + 1
    /\ UNCHANGED <<ledgerVars, decorateLog, inputs, rosterLen, backendFails, backendHangs, name, version, txParams, pc, cRes, cCCEvt, cErr,
                   resps, ccEvents, err, res, evt, calls, collected, finished>>

LaunchDone ==
    /\ pc = "launch" /\ i = N
    /\ pc' = "recvErr"
    /\ UNCHANGED <<ledgerVars, decorateLog, inputs, rosterLen, backendFails, backendHangs, name, version, txParams, i, task, cRes, cCCEvt, cErr,
                   resps, ccEvents, err, res, evt, calls, collected, finished>>

\* ---- the goroutine of index k (lines 168-182) ----------------------------

\* goroutines that stop at the first error the loop receives
RunningUntilError == pc # "panic" /\ err = Nil

\* goroutines run until the process ends
Running == pc # "panic"

\* s.Execute(txParams, cccid, inputs[index]): the backend is called; unless
\* the call never returns, it returns a response, an event and either nil or
\* an error
TaskCall(k) ==
    /\ Running /\ task[k].pc = "call"
    /\ task' = IF backendHangs[k]
                THEN [task EXCEPT ![k].pc = "inCall"]
                ELSE [task EXCEPT ![k] = [@ EXCEPT !.pc = "sendEvt",
                          !.response = ResponseOf(k),
                          !.event = EventOf(k),
                          !.err = IF backendFails[k] THEN ErrorOf(k) ELSE Nil]]
    /\ calls' = calls (+) SetToBag({[backend |-> task[k].s, index |-> k,
                                     input |-> inputs[k],
                                     cccid |-> CCContext(name, version, task[k].s),
                                     decorations |-> txParams.ProposalDecorations]})
    /\ UNCHANGED <<ledgerVars, decorateLog, inputs, rosterLen, backendFails, backendHangs, name, version, txParams, pc, i,
                   cRes, cCCEvt, cErr, resps, ccEvents, err, res, evt, collected, finished>>

Msg(k, v) == [from |-> k, val |-> v]

\* cCCEvt <- event
TaskSendEvt(k) ==
    /\ Running /\ task[k].pc = "sendEvt"
    /\ Len(cCCEvt) < ChanCap
    /\ cCCEvt' = Append(cCCEvt, Msg(k, task[k].event))
    /\ task' = [task EXCEPT ![k].pc = "sendErr"]
    /\ UNCHANGED <<ledgerVars, decorateLog, inputs, rosterLen, backendFails, backendHangs, name, version, txParams, pc, i, cRes, cErr,
                   resps, ccEvents, err, res, evt, calls, collected, finished>>

\* cErr <- err
TaskSendErr(k) ==
    /\ Running /\ task[k].pc = "sendErr"
    /\ Len(cErr) < ChanCap
    /\ cErr' = Append(cErr, Msg(k, task[k].err))
    /\ task' = [task EXCEPT ![k].pc = "sendRes"]
    /\ UNCHANGED <<ledgerVars, decorateLog, inputs, rosterLen, backendFails, backendHangs, name, version, txParams, pc, i, cRes, cCCEvt,
                   resps, ccEvents, err, res, evt, calls, collected, finished>>

\* cRes <- response
TaskSendRes(k) ==
    /\ Running /\ task[k].pc = "sendRes"
    /\ Len(cRes) < ChanCap
    /\ cRes' = Append(cRes, Msg(k, task[k].response))
    /\ task' = [task EXCEPT ![k].pc = "done"]
    /\ finished' = Append(finished, k)
    /\ UNCHANGED <<ledgerVars, decorateLog, inputs, rosterLen, backendFails, backendHangs, name, version, txParams, pc, i, cCCEvt, cErr,
                   resps, ccEvents, err, res, evt, calls, collected>>

\* ---- aggregation loop (lines 185-202) ------------------------------------
\* a loop that tests len(resps) >= len(inputs) before it receives
RecvErrTestFirst ==
    /\ pc = "recvErr"
    /\ IF Len0(resps) >= N
         THEN /\ pc' = "done"
              /\ UNCHANGED <<err, cErr, collected>>
         ELSE /\ cErr # <<>>
              /\ err' = Head(cErr).val
              /\ cErr' = Tail(cErr)
              /\ collected' = Append(collected,
                                     [err |-> Head(cErr).from, res |-> -1, evt |-> -1])
              /\ pc' = "recvRes"
    /\ UNCHANGED <<ledgerVars, decorateLog, inputs, rosterLen, backendFails, backendHangs,
                   name, version, txParams, i, task, cRes, cCCEvt,
                   resps, ccEvents, res, evt, calls, finished>>

\* case err = <-cErr
RecvErr ==
    /\ pc = "recvErr" /\ cErr # <<>>
    /\ err' = Head(cErr).val
    /\ cErr' = Tail(cErr)
    /\ collected' = Append(collected, [err |-> Head(cErr).from, res |-> -1, evt |-> -1])
    /\ pc' = "recvRes"
    /\ UNCHANGED <<ledgerVars, decorateLog, inputs, rosterLen, backendFails, backendHangs, name, version, txParams, i, task, cRes, cCCEvt,
                   resps, ccEvents, res, evt, calls, finished>>

\* a receive that leaves the response in the channel
RecvResPeek ==
    /\ pc = "recvRes" /\ cRes # <<>>
    /\ res' = Head(cRes).val
    /\ collected' = [collected EXCEPT ![Len(collected)].res = Head(cRes).from]
    /\ pc' = "recvEvt"
    /\ UNCHANGED <<ledgerVars, decorateLog, inputs, rosterLen, backendFails, backendHangs,
                   name, version, txParams, i, task, cRes, cCCEvt, cErr,
                   resps, ccEvents, err, evt, calls, finished>>

\* res := <-cRes
RecvRes ==
    /\ pc = "recvRes" /\ cRes # <<>>
    /\ res' = Head(cRes).val
    /\ cRes' = Tail(cRes)
    /\ collected' = [collected EXCEPT ![Len(collected)].res = Head(cRes).from]
    /\ pc' = "recvEvt"
    /\ UNCHANGED <<ledgerVars, decorateLog, inputs, rosterLen, backendFails, backendHangs, name, version, txParams, i, task, cCCEvt, cErr,
                   resps, ccEvents, err, evt, calls, finished>>

\* an iteration that forgets to append the event
AggregateDropEvent(rs, es, e, r, v, n) ==
    LET rs1 == Append0(rs, r)
    IN IF Len0(rs1) >= n
         THEN [resps |-> rs1, ccEvents |-> es, exit |-> TRUE]
         ELSE IF e # Nil
                THEN [resps |-> [rs1 EXCEPT ![0] = r], ccEvents |-> es, exit |-> FALSE]
                ELSE [resps |-> rs1, ccEvents |-> es, exit |-> FALSE]

\* an iteration whose exit test counts one response too many
AggregateExitEarly(rs, es, e, r, v, n) ==
    LET rs1 == Append0(rs, r)
        es1 == Append0(es, v)
    IN IF Len0(rs1) + 1 >= n
         THEN [resps |-> rs1, ccEvents |-> es1, exit |-> TRUE]
         ELSE IF e # Nil
                THEN [resps |-> [rs1 EXCEPT ![0] = r],
                      ccEvents |-> [es1 EXCEPT ![0] = v], exit |-> FALSE]
                ELSE [resps |-> rs1, ccEvents |-> es1, exit |-> FALSE]

\* an iteration that overwrites index 0 whatever the error
AggregateAlwaysOverwrite(rs, es, e, r, v, n) ==
    LET rs1 == Append0(rs, r)
        es1 == Append0(es, v)
    IN IF Len0(rs1) >= n
         THEN [resps |-> rs1, ccEvents |-> es1, exit |-> TRUE]
         ELSE [resps |-> [rs1 EXCEPT ![0] = r],
               ccEvents |-> [es1 EXCEPT ![0] = v], exit |-> FALSE]

\* an iteration that overwrites index 0 before the exit test
AggregateOverwriteFirst(rs, es, e, r, v, n) ==
    LET rs1 == Append0(rs, r)
        es1 == Append0(es, v)
        rs2 == IF e # Nil THEN [rs1 EXCEPT ![0] = r] ELSE rs1
        es2 == IF e # Nil THEN [es1 EXCEPT ![0] = v] ELSE es1
    IN [resps |-> rs2, ccEvents |-> es2, exit |-> Len0(rs1) >= n]

\* an iteration whose exit test is strict (> instead of >=)
AggregateExitLate(rs, es, e, r, v, n) ==
    LET rs1 == Append0(rs, r)
        es1 == Append0(es, v)
    IN IF Len0(rs1) > n
         THEN [resps |-> rs1, ccEvents |-> es1, exit |-> TRUE]
         ELSE IF e # Nil
                THEN [resps |-> [rs1 EXCEPT ![0] = r],
                      ccEvents |-> [es1 EXCEPT ![0] = v], exit |-> FALSE]
                ELSE [resps |-> rs1, ccEvents |-> es1, exit |-> FALSE]

\* the rest of one iteration once its response and event are known:
\* both appends, the exit test, then the overwrite of index 0
Aggregate(rs, es, e, r, v, n) ==
    LET rs1 == Append0(rs, r)
        es1 == Append0(es, v)
    IN IF Len0(rs1) >= n
         THEN [resps |-> rs1, ccEvents |-> es1, exit |-> TRUE]
         ELSE IF e # Nil
                THEN [resps |-> [rs1 EXCEPT ![0] = r],
                      ccEvents |-> [es1 EXCEPT ![0] = v], exit |-> FALSE]
                ELSE [resps |-> rs1, ccEvents |-> es1, exit |-> FALSE]

\* evt := <-cCCEvt, and the rest of the iteration
RecvEvt ==
    /\ pc = "recvEvt" /\ cCCEvt # <<>>
    /\ evt' = Head(cCCEvt).val
    /\ cCCEvt' = Tail(cCCEvt)
    /\ collected' = [collected EXCEPT ![Len(collected)].evt = Head(cCCEvt).from]
    /\ LET a == Aggregate(resps, ccEvents, err, res, Head(cCCEvt).val, N)
       IN /\ resps' = a.resps
          /\ ccEvents' = a.ccEvents
          /\ pc' = IF a.exit THEN "done" ELSE "recvErr"
    /\ UNCHANGED <<ledgerVars, decorateLog, inputs, rosterLen, backendFails, backendHangs, name, version, txParams, i, task, cRes, cErr,
                   err, res, calls, finished>>

Next ==
    \/ Decorate
    \/ MakeChannels
    \/ LaunchPanic
    \/ Launch
    \/ LaunchDone
    \/ \E k \in DOMAIN task : TaskCall(k)
    \/ \E k \in DOMAIN task : TaskSendEvt(k)
    \/ \E k \in DOMAIN task : TaskSendErr(k)
    \/ \E k \in DOMAIN task : TaskSendRes(k)
    \/ RecvErr
    \/ RecvRes
    \/ RecvEvt

Spec == Init /\ [][Next]_vars

\* Every goroutine that can take a step eventually takes it (the Go
\* scheduler starves no runnable goroutine).
Fairness ==
    /\ WF_vars(Decorate \/ MakeChannels \/ LaunchPanic \/ Launch \/ LaunchDone
                \/ RecvErr \/ RecvRes \/ RecvEvt)
    /\ \A k \in 0..MaxN :
         WF_vars(k \in DOMAIN task /\ (TaskCall(k) \/ TaskSendEvt(k)
                                        \/ TaskSendErr(k) \/ TaskSendRes(k)))

FairSpec == InitFailures /\ [][Next]_vars /\ Fairness

TypeOK ==
    /\ pc \in {"decorate", "launch", "recvErr", "recvRes", "recvEvt", "done", "panic"}
    /\ Len(cRes) <= ChanCap /\ Len(cCCEvt) <= ChanCap /\ Len(cErr) <= ChanCap
    /\ Len0(resps) = Len0(ccEvents)

\* ---- the ledger-backed delegations as operations -------------------------
CanDelegate == nDelegations < MaxDelegations

CallNewQueryCreator ==
    /\ CanDelegate
    /\ \E ch \in Channels, fails \in BOOLEAN : lastCall' = NewQueryCreator(ch, fails)
    /\ nDelegations' = nDelegations + 1
    /\ UNCHANGED <<executeVars, ledgers>>

CallGetTxSimulator ==
    /\ CanDelegate
    /\ \E ch \in Channels, fails \in BOOLEAN : lastCall' = GetTxSimulator(ch, fails)
    /\ nDelegations' = nDelegations + 1
    /\ UNCHANGED <<executeVars, ledgers>>

CallGetHistoryQueryExecutor ==
    /\ CanDelegate
    /\ \E ch \in Channels, fails \in BOOLEAN : lastCall' = GetHistoryQueryExecutor(ch, fails)
    /\ nDelegations' = nDelegations + 1
    /\ UNCHANGED <<executeVars, ledgers>>

CallGetTransactionByID ==
    /\ CanDelegate
    /\ \E ch \in Channels, fails \in BOOLEAN : lastCall' = GetTransactionByID(ch, fails)
    /\ nDelegations' = nDelegations + 1
    /\ UNCHANGED <<executeVars, ledgers>>

CallGetLedgerHeight ==
    /\ CanDelegate
    /\ \E ch \in Channels, fails \in BOOLEAN : lastCall' = GetLedgerHeight(ch, fails)
    /\ nDelegations' = nDelegations + 1
    /\ UNCHANGED <<executeVars, ledgers>>

\* a peer with any set of ledgers, before any delegation
InitLedger ==
    /\ InitCall(1, {"invoke"}, {1}, {{}}, {"mycc"}, {<<49>>}, {{}})
    /\ ledgers \in SUBSET Channels
    /\ lastCall = NoCall
    /\ nDelegations = 0

NextLedger ==
    \/ CallNewQueryCreator
    \/ CallGetTxSimulator
    \/ CallGetHistoryQueryExecutor
    \/ CallGetTransactionByID
    \/ CallGetLedgerHeight

LedgerSpec == InitLedger /\ [][NextLedger]_vars

\* ==== properties ==========================================================
\* Execute has returned resps, ccEvents, err
Returned == pc = "done"
\* the tasks whose backend call returns a non-nil error
Failing == {k \in DOMAIN backendFails : backendFails[k]}
\* an iteration of the aggregation loop has just been completed
IterationDone == pc \in {"recvErr", "done"} /\ collected # <<>>
\* the iteration in which the error / response / event of task k was received
ErrPos(k) == CHOOSE p \in 1..Len(collected) : collected[p].err = k
\* the failing task whose error the loop received last
LastFailing == CHOOSE f \in Failing : \A g \in Failing : ErrPos(g) <= ErrPos(f)
IsMarked(k) == inputs[k].Args0 = ConfigBlockMarker

\* C1: when exactly one task's backend call fails with E, Execute returns E
\* and index 0 of the returned responses and events holds that task's
\* response and event.  (Refuted by the code: see the trace.)
C1_SingleFailureReturned ==
    (Returned /\ Cardinality(Failing) = 1) =>
        \A f \in Failing : /\ err = ErrorOf(f)
                           /\ resps[0] = ResponseOf(f)
                           /\ ccEvents[0] = EventOf(f)

\* C2: every iteration of the aggregation loop that collected a non-nil
\* error leaves the response and event it collected at index 0 of resps and
\* ccEvents, whichever iteration of the batch it is.  (Refuted: the last
\* iteration leaves the loop before the overwrite.)
C2_ErrorOverwritesIndex0 ==
    (IterationDone /\ err # Nil) => (resps[0] = res /\ ccEvents[0] = evt)

\* C3: in every completed iteration of the aggregation loop the error, the
\* response and the event received were sent by the same task.  (Refuted:
\* the three sends of a task interleave with those of the other tasks.)
C3_TripleFromSameTask ==
    \A p \in 1..Len(collected) :
        (p < Len(collected) \/ IterationDone) =>
            (collected[p].res = collected[p].err /\ collected[p].evt = collected[p].err)

\* C4: the error Execute returns is the error of one of the failing tasks if
\* any task failed, and nil if none failed.  (Refuted: a nil error received
\* after a failure replaces it.)
C4_ReturnedErrorIsAFailure ==
    Returned => IF Failing = {} THEN err = Nil
                ELSE \E f \in Failing : err = ErrorOf(f)

\* C5: when every backend call returns a nil error, Execute returns exactly
\* N responses, exactly N events and a nil error.
C5_AllSucceed ==
    (Returned /\ Failing = {}) =>
        (Len0(resps) = N /\ Len0(ccEvents) = N /\ err = Nil)

C5_Witness == Returned /\ Failing = {} /\ N >= 2

\* C6: Execute returns only after exactly N iterations of the aggregation
\* loop, which together received the error, the response and the event of
\* every task exactly once; the loop never runs more than N iterations.
C6_ExactlyNOutcomes ==
    /\ Len(collected) <= N
    /\ Returned =>
         /\ Len(collected) = N
         /\ \A k \in DOMAIN task :
              /\ Cardinality({p \in 1..N : collected[p].err = k}) = 1
              /\ Cardinality({p \in 1..N : collected[p].res = k}) = 1
              /\ Cardinality({p \in 1..N : collected[p].evt = k}) = 1

C6_Witness == Returned /\ N >= 3 /\ Failing # {}

\* a goroutine blocked on a channel operation
TaskBlocked(k) ==
    \/ task[k].pc = "sendEvt" /\ Len(cCCEvt) >= ChanCap
    \/ task[k].pc = "sendErr" /\ Len(cErr) >= ChanCap
    \/ task[k].pc = "sendRes" /\ Len(cRes) >= ChanCap
AggregatorBlocked ==
    \/ pc = "recvErr" /\ cErr = <<>>
    \/ pc = "recvRes" /\ cRes = <<>>
    \/ pc = "recvEvt" /\ cCCEvt = <<>>
\* every task has been launched, and the aggregation loop and every
\* unfinished task are blocked
Deadlocked ==
    /\ AggregatorBlocked
    /\ \A k \in DOMAIN task : task[k].pc # "done" => TaskBlocked(k)

\* C7: with channels of capacity 2 and any N (also N > 2), when every
\* backend call returns, the aggregation loop and the unfinished tasks are
\* never all blocked, and under fair scheduling Execute eventually returns
\* (for a roster that covers the batch).
C7_NoDeadlockAndReturns ==
    /\ [](~Deadlocked)
    /\ (rosterLen >= N) ~> Returned

C7_Witness == Returned /\ N > ChanCap

\* C8: when exactly two tasks fail, the error Execute returns is one of
\* their two errors and index 0 of the returned responses and events holds
\* the outcome of the failing task collected last.  (Refuted by the code.)
C8_TwoFailuresReturned ==
    (Returned /\ Cardinality(Failing) = 2) =>
        /\ \E f \in Failing : err = ErrorOf(f)
        /\ resps[0] = ResponseOf(LastFailing)
        /\ ccEvents[0] = EventOf(LastFailing)

\* C9: with a roster of length >= 2, an input whose first argument is the
\* config-block marker is dispatched to the last ChaincodeSupport whatever
\* its index, also when its index is not a position of the roster: the
\* launch loop does not fail on it, and its task runs on the last backend.
\* (Refuted: the roster is indexed with i before the marker is tested.)
C9_MarkedGoesToLast ==
    \A k \in DOMAIN inputs :
        (rosterLen >= 2 /\ IsMarked(k)) =>
            /\ ~(pc = "panic" /\ i = k)
            /\ task[k].pc # "idle" => task[k].s = rosterLen - 1

\* the backend calls made for input k
CallsFor(k) == {c \in BagToSet(calls) : c.index = k}
\* input k as the decoration loop leaves it
DecoratedInput(k) == [Args0 |-> inputs[k].Args0, Decorations |-> DecorationsFor(k)]

\* C10: with a roster at least as long as the batch, an input at index k
\* that does not carry the config-block marker is executed by one task only,
\* which calls the backend at roster position k once, with the decorated
\* input k; when Execute returns that call has been made.
C10_UnmarkedGoesToOwnIndex ==
    \A k \in DOMAIN inputs :
        (rosterLen >= N /\ ~IsMarked(k)) =>
            /\ \A c \in CallsFor(k) : /\ c.backend = k
                                      /\ c.input = DecoratedInput(k)
                                      /\ CopiesIn(c, calls) = 1
            /\ Cardinality(CallsFor(k)) <= 1
            /\ task[k].pc \in {"sendEvt", "sendErr", "sendRes", "done"}
                   => Cardinality(CallsFor(k)) = 1
            /\ Returned => Cardinality(CallsFor(k)) = 1

C10_Witness ==
    /\ Returned /\ rosterLen > N /\ N >= 2
    /\ \E k \in DOMAIN inputs : ~IsMarked(k)
    /\ \E k \in DOMAIN inputs : IsMarked(k)

SystemNames == {"cscc", "lscc"}

\* C11 (as claimed): the version passed to the backend is the caller's
\* version unchanged, unless the name is "cscc" or "lscc", in which case the
\* selected backend's container tag is appended.  (Refuted: the code appends
\* for every name except those two.)
C11_TagForSystemNames ==
    \A c \in BagToSet(calls) :
        c.cccid.Version = IF name \in SystemNames
                            THEN version \o <<45>> \o CCContainerName(c.backend)
                            ELSE version

\* C11 (amended): the version passed to the backend is the caller's version
\* followed by "-" and the container tag of the backend the task runs on,
\* unless the name is "cscc" or "lscc", in which case it is the caller's
\* version unchanged; the name passed is the caller's name.
C11_TagForOtherNames ==
    \A c \in BagToSet(calls) :
        /\ c.cccid.Name = name
        /\ c.cccid.Version = IF name \in SystemNames
                               THEN version
                               ELSE version \o <<45>> \o CCContainerName(c.backend)

C11_Witness ==
    /\ Returned /\ name \notin SystemNames /\ version = <<49, 46, 48>>
    /\ \E c \in BagToSet(calls) : c.backend # c.index

\* C12: when all tasks succeed, the returned responses are listed in the
\* order in which the tasks completed (a task completes with its send on
\* cRes), whatever the input order, and the returned error is nil.
C12_CompletionOrder ==
    (Returned /\ Failing = {}) =>
        /\ Len(finished) = N
        /\ \A p \in 1..N : resps[p - 1] = ResponseOf(finished[p])
        /\ err = Nil

\* N = 3, B1 completes first, then B2, then B0: responses [R1, R2, R0]
C12_Witness ==
    /\ Returned /\ N = 3 /\ Failing = {}
    /\ finished = <<1, 2, 0>>
    /\ resps = (0 :> ResponseOf(1)) @@ (1 :> ResponseOf(2)) @@ (2 :> ResponseOf(0))
    /\ err = Nil

\* the tasks whose backend call never returns
Hanging == {k \in DOMAIN backendHangs : backendHangs[k]}

\* C13: if the backend call of a task never returns, Execute never returns,
\* also when all the other tasks have completed; and no task is cancelled or
\* skipped because of a failure: a launched task can make its backend call
\* and, channel space permitting, each of its sends, whatever errors the
\* loop has received, and Execute returns only after every task has made
\* its call.
C13_HangNeverReturns ==
    /\ Hanging # {} => ~Returned
    /\ \A k \in DOMAIN task :
         /\ (pc # "panic" /\ task[k].pc = "call") => ENABLED TaskCall(k)
         /\ (pc # "panic" /\ task[k].pc = "sendEvt" /\ Len(cCCEvt) < ChanCap)
                => ENABLED TaskSendEvt(k)
         /\ (pc # "panic" /\ task[k].pc = "sendErr" /\ Len(cErr) < ChanCap)
                => ENABLED TaskSendErr(k)
         /\ (pc # "panic" /\ task[k].pc = "sendRes" /\ Len(cRes) < ChanCap)
                => ENABLED TaskSendRes(k)
         /\ Returned => Cardinality(CallsFor(k)) = 1

\* one call hangs, the other two tasks have completed (one of them failed)
\* and the loop waits on cErr
C13_Witness ==
    /\ N = 3 /\ Cardinality(Hanging) = 1
    /\ \A k \in DOMAIN task : k \notin Hanging => task[k].pc = "done"
    /\ \E k \in DOMAIN task : k \notin Hanging /\ backendFails[k]
    /\ \A k \in Hanging : task[k].pc = "inCall"
    /\ pc = "recvErr" /\ cErr = <<>> /\ Len(collected) = N - 1

\* the calls the last delegation made on the peer and on the ledger
PeerLookups == {p \in 1..Len(lastCall.log) : lastCall.log[p].target = "peer"}
LedgerOps == {p \in 1..Len(lastCall.log) : lastCall.log[p].target = "ledger"}
LedgerMethods == {"NewQueryCreator", "GetTxSimulator", "GetHistoryQueryExecutor",
                  "GetTransactionByID", "GetLedgerHeight"}

\* C14 (as claimed): each of the five delegations looks the ledger up once;
\* without a ledger it returns an error and calls no ledger operation, and
\* with a ledger it makes exactly one call on it.  (Refuted: NewQueryCreator
\* returns the ledger without calling it.)
C14_OneLedgerCall ==
    lastCall.method \in LedgerMethods =>
        /\ Cardinality(PeerLookups) = 1
        /\ lastCall.channel \notin ledgers =>
               (lastCall.err # NoErr /\ LedgerOps = {})
        /\ lastCall.channel \in ledgers => Cardinality(LedgerOps) = 1

\* C14 (amended): each of the five delegations looks the ledger up once;
\* without a ledger it returns an error and calls no ledger operation; with
\* a ledger, GetTxSimulator, GetHistoryQueryExecutor, GetTransactionByID and
\* GetLedgerHeight make exactly one call on it, on the ledger of the given
\* channel, and NewQueryCreator returns that ledger without calling it.
C14_OneLedgerCallExceptQueryCreator ==
    lastCall.method \in LedgerMethods =>
        /\ Cardinality(PeerLookups) = 1
        /\ \A p \in PeerLookups : lastCall.log[p].arg = lastCall.channel
        /\ lastCall.channel \notin ledgers =>
               (lastCall.err # NoErr /\ LedgerOps = {})
        /\ (lastCall.channel \in ledgers /\ lastCall.method # "NewQueryCreator") =>
               /\ Cardinality(LedgerOps) = 1
               /\ \A p \in LedgerOps : lastCall.log[p].arg = lastCall.channel
        /\ (lastCall.channel \in ledgers /\ lastCall.method = "NewQueryCreator") =>
               /\ LedgerOps = {}
               /\ lastCall.val = [kind |-> "ledger", channel |-> lastCall.channel]
               /\ lastCall.err = NoErr

\* GetLedgerHeight was called for a channel without a ledger, after a
\* delegation on a channel that has one
C14_Witness ==
    /\ nDelegations = 2
    /\ lastCall.method = "GetLedgerHeight"
    /\ lastCall.channel \notin ledgers
    /\ ledgers # {}

\* the aggregation loop has read from a channel
AggregationStarted == collected # <<>>
AllLaunched == \A k \in DOMAIN task : task[k].pc # "idle"

\* C15: the inputs are decorated one after the other in index order, each
\* exactly once and each starting from an empty decoration mapping; no task
\* is launched before all N inputs are decorated, and the aggregation loop
\* reads no result before all N tasks are launched.
C15_DecorateThenLaunchThenCollect ==
    /\ Len(decorateLog) <= N
    /\ \A p \in 1..Len(decorateLog) :
         /\ decorateLog[p].index = p - 1
         /\ decorateLog[p].start = {}
         /\ inputs[p - 1].Decorations = DecorationsFor(p - 1)
    /\ pc = "decorate" => Len(decorateLog) = i
    /\ pc # "decorate" => Len(decorateLog) = N
    /\ \A k \in DOMAIN task : task[k].pc # "idle" => Len(decorateLog) = N
    /\ (AggregationStarted \/ pc \in {"recvErr", "recvRes", "recvEvt", "done"})
           => AllLaunched

C15_Witness ==
    /\ N = 3 /\ pc = "recvRes" /\ Len(collected) = 1
    /\ \E k \in DOMAIN task : task[k].pc = "call"

\* the error received in iteration p was non-nil
ErrorIn(p) == backendFails[collected[p].err]
\* the iteration whose response and event index 0 holds after n iterations:
\* the last of the iterations 1..n-1 that received an error, else the first
Index0Source(n) ==
    LET F == {p \in 1..(n - 1) : ErrorIn(p)}
    IN IF F = {} THEN 1 ELSE CHOOSE p \in F : \A q \in F : q <= p

\* C16: the overwrite on error changes index 0 only.  Index k >= 1 of resps
\* and ccEvents holds what iteration k+1 received; what the N-th iteration
\* received is stored at index N-1 only and never copied to index 0, which
\* holds what the last erroneous iteration before the N-th (else the first
\* iteration) received; for N = 1 the result is the single task's triple.
C16_OverwriteOnlyIndex0 ==
    /\ \A k \in 1..(Len0(resps) - 1) :
         /\ resps[k] = ResponseOf(collected[k + 1].res)
         /\ ccEvents[k] = EventOf(collected[k + 1].evt)
    /\ (Returned /\ N >= 2) =>
         /\ resps[0] = ResponseOf(collected[Index0Source(N)].res)
         /\ ccEvents[0] = EventOf(collected[Index0Source(N)].evt)
         /\ resps[0] # ResponseOf(collected[N].res)
         /\ ccEvents[0] # EventOf(collected[N].evt)
    /\ (Returned /\ N = 1) =>
         /\ resps = (0 :> ResponseOf(0))
         /\ ccEvents = (0 :> EventOf(0))
         /\ err = task[0].err

\* the last iteration received an error and index 0 still holds what the
\* first iteration received
C16_Witness ==
    /\ Returned /\ N = 3 /\ ErrorIn(3) /\ err # Nil
    /\ resps[0] = ResponseOf(collected[1].res)

\* C17: when Execute returns, the three result channels are empty and every
\* task goroutine has completed its three sends.
C17_NothingLeftBehind ==
    Returned =>
        /\ cRes = <<>> /\ cCCEvt = <<>> /\ cErr = <<>>
        /\ \A k \in DOMAIN task : task[k].pc = "done"
        /\ Len(finished) = N

C17_Witness == Returned /\ N = 3 /\ Cardinality(Failing) = 2

\* C18: for an empty batch no task exists and no backend is called, the
\* aggregation loop is reached and can never receive from cErr, so Execute
\* never returns: once at the receive, no step of Execute is possible.
C18_EmptyBatchNeverReturns ==
    N = 0 =>
        /\ ~Returned
        /\ DOMAIN task = {}
        /\ calls = EmptyBag
        /\ cErr = <<>>
        /\ pc \in {"decorate", "launch", "recvErr"}
        /\ pc = "recvErr" => ~ENABLED Next

C18_Witness == N = 0 /\ pc = "recvErr" /\ rosterLen = 1

\* C19: the one txParams object is written at every step of the decoration
\* loop, so from the end of that loop its ProposalDecorations are the
\* decorations of the last input (index N-1), and every task passes that
\* value to its backend, whichever input it executes.
C19_SharedDecorationsOfLastInput ==
    /\ (pc = "decorate" /\ i >= 1) => txParams.ProposalDecorations = DecorationsFor(i - 1)
    /\ (pc # "decorate" /\ N >= 1) => txParams.ProposalDecorations = DecorationsFor(N - 1)
    /\ \A c \in BagToSet(calls) :
         /\ c.decorations = DecorationsFor(N - 1)
         /\ c.input.Decorations = DecorationsFor(c.index)

\* the task of input 0 passed the decorations of input 2
C19_Witness ==
    /\ Returned /\ N = 3
    /\ \E c \in BagToSet(calls) : c.index = 0 /\ c.decorations = DecorationsFor(2)
====
